---------------------------- MODULE Spec2Model ----------------------------
(***************************************************************************)
(* A model of the urlexpand crate: the domain classifier (is_shortened),   *)
(* the resolution engine (unshorten), the redirect-follower strategy and   *)
(* the blocking adapter (unshorten_blocking).                              *)
(*                                                                         *)
(* Strings are sequences of one-character strings, so that suffix tests,   *)
(* lower-casing and URL parsing are computed character by character.       *)
(* Option<T> is a set with at most one element: None is {} and Some(x) is  *)
(* {x}.                                                                    *)
(***************************************************************************)
EXTENDS Integers, Sequences, FiniteSets

(***************************************************************************)
(* Bounds of the model.                                                    *)
(***************************************************************************)
\* Longest redirect chain an endpoint serves.
MaxChain == 12
\* Longest caller-supplied timeout, in clock ticks.
MaxTimeout == 2
\* Number of threads that may call the library concurrently.
NCallers == 2

(***************************************************************************)
(* Characters and strings.                                                 *)
(***************************************************************************)
LowerLetters ==
    <<"a", "b", "c", "d", "e", "f", "g", "h", "i", "j", "k", "l", "m",
      "n", "o", "p", "q", "r", "s", "t", "u", "v", "w", "x", "y", "z">>

UpperLetters ==
    <<"A", "B", "C", "D", "E", "F", "G", "H", "I", "J", "K", "L", "M",
      "N", "O", "P", "Q", "R", "S", "T", "U", "V", "W", "X", "Y", "Z">>

Digits == <<"0", "1", "2", "3", "4", "5", "6", "7", "8", "9">>

IsLower(ch) == \E i \in DOMAIN LowerLetters : LowerLetters[i] = ch

IsUpper(ch) == \E i \in DOMAIN UpperLetters : UpperLetters[i] = ch

IsAsciiAlpha(ch) == IsLower(ch) \/ IsUpper(ch)

IsDigit(ch) == \E i \in DOMAIN Digits : Digits[i] = ch

DigitValue(ch) == (CHOOSE i \in DOMAIN Digits : Digits[i] = ch) - 1

\* char::to_ascii_lowercase / str::to_lowercase on the ASCII range.
to_ascii_lowercase(ch) ==
    IF IsUpper(ch)
    THEN LowerLetters[CHOOSE i \in DOMAIN UpperLetters : UpperLetters[i] = ch]
    ELSE ch

to_lowercase(s) == [i \in 1..Len(s) |-> to_ascii_lowercase(s[i])]

\* str::ends_with
ends_with(s, suffix) ==
    /\ Len(suffix) <= Len(s)
    /\ SubSeq(s, Len(s) - Len(suffix) + 1, Len(s)) = suffix

\* str::starts_with
starts_with(s, prefix) ==
    /\ Len(prefix) <= Len(s)
    /\ SubSeq(s, 1, Len(prefix)) = prefix

\* str::strip_suffix: Some(the rest) when s ends with suffix, else None.
strip_suffix(s, suffix) ==
    IF ends_with(s, suffix) THEN {SubSeq(s, 1, Len(s) - Len(suffix))} ELSE {}

\* Option::unwrap_or
unwrap_or(opt, default) == IF opt = {} THEN default ELSE CHOOSE x \in opt : TRUE

Drop(s, n) == SubSeq(s, n + 1, Len(s))

\* The least index of s whose character satisfies Stop, or Len(s) + 1.
FirstIndex(s, Stop(_)) ==
    LET hits == {i \in 1..Len(s) : Stop(s[i])}
    IN  IF hits = {} THEN Len(s) + 1
        ELSE CHOOSE i \in hits : \A j \in hits : i <= j

(***************************************************************************)
(* The service table (services::SERVICES).  The table lists the domains    *)
(* that unshorten dispatches on by name, and bit.ly, which takes the       *)
(* default branch of the dispatch.                                         *)
(***************************************************************************)
S_adf_ly == <<"a", "d", "f", ".", "l", "y">>
S_atominik_com == <<"a", "t", "o", "m", "i", "n", "i", "k", ".", "c", "o", "m">>
S_fumacrom_com == <<"f", "u", "m", "a", "c", "r", "o", "m", ".", "c", "o", "m">>
S_intamema_com == <<"i", "n", "t", "a", "m", "e", "m", "a", ".", "c", "o", "m">>
S_j_gs == <<"j", ".", "g", "s">>
S_q_gs == <<"q", ".", "g", "s">>
S_gns_io == <<"g", "n", "s", ".", "i", "o">>
S_ity_im == <<"i", "t", "y", ".", "i", "m">>
S_ldn_im == <<"l", "d", "n", ".", "i", "m">>
S_nowlinks_net == <<"n", "o", "w", "l", "i", "n", "k", "s", ".", "n", "e", "t">>
S_rlu_ru == <<"r", "l", "u", ".", "r", "u">>
S_tinyurl_com == <<"t", "i", "n", "y", "u", "r", "l", ".", "c", "o", "m">>
S_tr_im == <<"t", "r", ".", "i", "m">>
S_u_to == <<"u", ".", "t", "o">>
S_vzturl_com == <<"v", "z", "t", "u", "r", "l", ".", "c", "o", "m">>
S_cutt_us == <<"c", "u", "t", "t", ".", "u", "s">>
S_soo_gd == <<"s", "o", "o", ".", "g", "d">>
S_adfoc_us == <<"a", "d", "f", "o", "c", ".", "u", "s">>
S_lnkd_in == <<"l", "n", "k", "d", ".", "i", "n">>
S_shorturl_at == <<"s", "h", "o", "r", "t", "u", "r", "l", ".", "a", "t">>
S_surl_li == <<"s", "u", "r", "l", ".", "l", "i">>
S_bit_ly == <<"b", "i", "t", ".", "l", "y">>

AdflyDomains ==
    {S_adf_ly, S_atominik_com, S_fumacrom_com, S_intamema_com, S_j_gs, S_q_gs}

RedirectDomains ==
    {S_gns_io, S_ity_im, S_ldn_im, S_nowlinks_net, S_rlu_ru, S_tinyurl_com,
     S_tr_im, S_u_to, S_vzturl_com}

RefreshDomains == {S_cutt_us, S_soo_gd}

SERVICES ==
    AdflyDomains \cup RedirectDomains \cup RefreshDomains
        \cup {S_adfoc_us, S_lnkd_in, S_shorturl_at, S_surl_li, S_bit_ly}

(***************************************************************************)
(* The domain classifier.                                                  *)
(***************************************************************************)
\* A matcher that forgets the label boundary.
domain_matches_service_unbounded(domain, service) ==
    domain = service \/ ends_with(domain, service)

\* domain == service || domain.strip_suffix(service)
\*     .map(|prefix| prefix.ends_with('.')).unwrap_or(false)
domain_matches_service(domain, service) ==
    \/ domain = service
    \/ unwrap_or({ends_with(prefix, <<".">>) :
                      prefix \in strip_suffix(domain, service)}, FALSE)

\* d.strip_suffix('.').unwrap_or(&d), then any service that matches.
MatchesAnyService(d) ==
    \E svc \in SERVICES :
        domain_matches_service(unwrap_or(strip_suffix(d, <<".">>), d), svc)

domain_is_shortened(domain) == MatchesAnyService(to_lowercase(domain))

(***************************************************************************)
(* Url::parse of the url crate, on strings over letters, digits and the    *)
(* characters . - + : / ^ (no userinfo, query, fragment, backslash,        *)
(* bracket, percent sign or white space occurs in the inputs, no host      *)
(* label is hexadecimal and no scheme is "file").  A parse yields          *)
(* [ok, url, err] where url is [scheme, authority, host_kind, host, port,  *)
(* path].                                                                  *)
(***************************************************************************)
STR_https == <<"h", "t", "t", "p", "s">>
STR_http == <<"h", "t", "t", "p">>
STR_ws == <<"w", "s">>
STR_wss == <<"w", "s", "s">>
STR_ftp == <<"f", "t", "p">>
\* The literal of format!("https://{}", url).
HttpsPrefix == <<"h", "t", "t", "p", "s", ":", "/", "/">>

NoUrl ==
    [scheme |-> <<>>, authority |-> FALSE, host_kind |-> "None",
     host |-> <<>>, port |-> {}, path |-> <<>>]

ParseOk(u) == [ok |-> TRUE, url |-> u, err |-> ""]

ParseErr(e) == [ok |-> FALSE, url |-> NoUrl, err |-> e]

IsSchemeChar(ch) == IsAsciiAlpha(ch) \/ IsDigit(ch) \/ ch \in {"+", "-", "."}

NotSchemeChar(ch) == ~IsSchemeChar(ch)

NotDigit(ch) == ~IsDigit(ch)

NotSlash(ch) == ch # "/"

IsDot(ch) == ch = "."

\* The characters that end the host: the port's colon or the path's slash.
IsHostEnd(ch) == ch \in {":", "/"}

IsForbiddenHostChar(ch) == ch = "^"

SchemeColon(input, i) ==
    IF i <= Len(input) /\ input[i] = ":" THEN {i} ELSE {}

\* Parser::parse_scheme: the scheme starts with a letter and ends at the
\* first character that is not a scheme character, which has to be the
\* colon: Some(the colon's index), else None.
parse_scheme(input) ==
    IF input = <<>> \/ ~IsAsciiAlpha(input[1]) THEN {}
    ELSE SchemeColon(input, FirstIndex(input, NotSchemeChar))

IsSpecial(scheme) == scheme \in {STR_https, STR_http, STR_ws, STR_wss, STR_ftp}

default_port(scheme) ==
    IF scheme \in {STR_https, STR_wss} THEN {443}
    ELSE IF scheme \in {STR_http, STR_ws} THEN {80}
    ELSE IF scheme = STR_ftp THEN {21}
    ELSE {}

RECURSIVE DecimalValue(_)
DecimalValue(s) ==
    IF s = <<>> THEN 0
    ELSE 10 * DecimalValue(SubSeq(s, 1, Len(s) - 1)) + DigitValue(s[Len(s)])

IsDecimal(s) == s # <<>> /\ \A i \in 1..Len(s) : IsDigit(s[i])

\* The labels of a host, split at the dots.
RECURSIVE Labels(_)
LabelsFrom(h, i) ==
    IF i > Len(h) THEN <<h>>
    ELSE <<SubSeq(h, 1, i - 1)>> \o Labels(Drop(h, i))

Labels(h) == LabelsFrom(h, FirstIndex(h, IsDot))

DropEmptyLast(ls) ==
    IF Len(ls) > 1 /\ ls[Len(ls)] = <<>> THEN SubSeq(ls, 1, Len(ls) - 1) ELSE ls

\* The labels to read as numbers: one trailing empty label is dropped.
NumberParts(h) == DropEmptyLast(Labels(h))

LastIsDecimal(ps) == IsDecimal(ps[Len(ps)])

\* The host ends in a number when its last label is one.
ends_in_a_number(h) == LastIsDecimal(NumberParts(h))

RECURSIVE Pow256(_)
Pow256(n) == IF n = 0 THEN 1 ELSE 256 * Pow256(n - 1)

AreIpv4Parts(ps) ==
    /\ Len(ps) <= 4
    /\ \A i \in 1..Len(ps) : IsDecimal(ps[i]) /\ Len(ps[i]) <= 10
    /\ \A i \in 1..(Len(ps) - 1) : DecimalValue(ps[i]) <= 255
    /\ DecimalValue(ps[Len(ps)]) < Pow256(5 - Len(ps))

is_ipv4(h) == AreIpv4Parts(NumberParts(h))

HostErr(e) == [ok |-> FALSE, kind |-> "None", host |-> <<>>, err |-> e]

HostOk(k, h) == [ok |-> TRUE, kind |-> k, host |-> h, err |-> ""]

CheckedHost(h, special) ==
    IF \E i \in 1..Len(h) : IsForbiddenHostChar(h[i])
    THEN HostErr("InvalidDomainCharacter")
    ELSE IF special /\ ends_in_a_number(h)
    THEN IF is_ipv4(h) THEN HostOk("Ipv4", h) ELSE HostErr("InvalidIpv4Address")
    ELSE HostOk(IF h = <<>> THEN "None" ELSE "Domain", h)

\* Host::parse (special schemes: lower-cased, may be an IPv4 address) and
\* Host::parse_opaque (the others: kept as written): [ok, kind, host, err].
Host_parse(host_str, special) ==
    CheckedHost(IF special THEN to_lowercase(host_str) ELSE host_str, special)

PortErr == [ok |-> FALSE, port |-> {}, rest |-> <<>>]

PortOf(digits, value, rest, scheme) ==
    IF Len(digits) > 5 \/ value > 65535 THEN PortErr
    ELSE [ok |-> TRUE,
          port |-> IF digits = <<>> \/ {value} = default_port(scheme) THEN {}
                   ELSE {value},
          rest |-> rest]

PortDigits(input, j, scheme) ==
    IF j <= Len(input) /\ input[j] # "/" THEN PortErr
    ELSE PortOf(SubSeq(input, 1, j - 1),
                DecimalValue(SubSeq(input, 1, j - 1)), Drop(input, j - 1), scheme)

\* Parser::parse_port on the text after the colon: digits up to the path or
\* the end; no digit, or the scheme's default, is no port: [ok, port, rest].
parse_port(input, scheme) == PortDigits(input, FirstIndex(input, NotDigit), scheme)

\* The port part, when the host is followed by a colon.
PortPart(rest, scheme) ==
    IF rest # <<>> /\ rest[1] = ":" THEN parse_port(Drop(rest, 1), scheme)
    ELSE [ok |-> TRUE, port |-> {}, rest |-> rest]

Authority(scheme, host_str, has_port, host, port) ==
    IF IsSpecial(scheme) /\ host_str = <<>> THEN ParseErr("EmptyHost")
    ELSE IF ~host.ok THEN ParseErr(host.err)
    ELSE IF host.host = <<>> /\ has_port THEN ParseErr("EmptyHost")
    ELSE IF ~port.ok THEN ParseErr("InvalidPort")
    ELSE ParseOk([scheme |-> scheme, authority |-> TRUE,
                  host_kind |-> host.kind, host |-> host.host,
                  port |-> port.port,
                  path |-> IF IsSpecial(scheme) /\ port.rest = <<>> THEN <<"/">>
                           ELSE port.rest])

HostAndPort(scheme, host_str, rest) ==
    Authority(scheme, host_str, rest # <<>> /\ rest[1] = ":",
              Host_parse(host_str, IsSpecial(scheme)), PortPart(rest, scheme))

SplitHost(scheme, input, i) ==
    HostAndPort(scheme, SubSeq(input, 1, i - 1), Drop(input, i - 1))

\* Parser::after_double_slash: the host up to a colon or a slash, the port,
\* then the path.
after_double_slash(scheme, input) ==
    SplitHost(scheme, input, FirstIndex(input, IsHostEnd))

\* Parser::parse_with_scheme: a special scheme skips any number of slashes
\* and reads an authority; another scheme reads one only after "//", and
\* has no host otherwise.
parse_with_scheme(scheme, input) ==
    IF IsSpecial(scheme) \/ starts_with(input, <<"/", "/">>)
    THEN after_double_slash(scheme,
             IF IsSpecial(scheme) THEN Drop(input, FirstIndex(input, NotSlash) - 1)
             ELSE Drop(input, 2))
    ELSE ParseOk([scheme |-> scheme, authority |-> FALSE, host_kind |-> "None",
                  host |-> <<>>, port |-> {}, path |-> input])

SchemeAndRest(input, colon) ==
    IF colon = {} THEN ParseErr("RelativeUrlWithoutBase")
    ELSE parse_with_scheme(
             to_lowercase(SubSeq(input, 1, (CHOOSE k \in colon : TRUE) - 1)),
             Drop(input, CHOOSE k \in colon : TRUE))

\* Url::parse: without a scheme (and without a base) the input is relative.
Url_parse(input) == SchemeAndRest(input, parse_scheme(input))

\* Url::domain: the host when it is a domain name, else None.
domain(u) == IF u.host_kind = "Domain" THEN {u.host} ELSE {}

RECURSIVE DecimalString(_)
DecimalString(n) ==
    IF n < 10 THEN <<Digits[n + 1]>>
    ELSE DecimalString(n \div 10) \o <<Digits[(n % 10) + 1]>>

\* Url::as_str: the serialization.
as_str(u) ==
    u.scheme \o <<":">>
        \o (IF u.authority THEN <<"/", "/">> \o u.host ELSE <<>>)
        \o (IF u.port = {} THEN <<>>
            ELSE <<":">> \o DecimalString(CHOOSE p \in u.port : TRUE))
        \o u.path

(***************************************************************************)
(* The two entry checks of the library.                                    *)
(***************************************************************************)
\* .ok().and_then(|u| u.domain()).map(|d| domain_is_shortened(&d))
\*     .unwrap_or(false)
ClassifyParsed(parsed) ==
    unwrap_or({domain_is_shortened(d) :
                  d \in IF parsed.ok THEN domain(parsed.url) ELSE {}}, FALSE)

\* Url::parse(url).or_else(|_| Url::parse(&format!("https://{}", url)))
OrElseHttps(first, url) ==
    IF first.ok THEN first ELSE Url_parse(HttpsPrefix \o url)

\* A classifier that does not retry with the https:// prefix.
is_shortened_strict(url) == ClassifyParsed(Url_parse(url))

is_shortened(url) == ClassifyParsed(OrElseHttps(Url_parse(url), url))

\* parts.domain().filter(|d| domain_is_shortened(d)).map(|_| parts.as_str())
ShortenerOnly(parts) ==
    {as_str(p) : p \in {q \in parts : \E d \in domain(q) : domain_is_shortened(d)}}

\* The match on Url::parse(u): the URL, or the URL of the retry with
\* https:// after RelativeUrlWithoutBase, or None.
ParsedParts(first, u) ==
    IF first.ok THEN {first.url}
    ELSE IF first.err = "RelativeUrlWithoutBase"
    THEN {r.url : r \in {q \in {Url_parse(HttpsPrefix \o u)} : q.ok}}
    ELSE {}

\* A validation that accepts every URL that has a domain.
validate_any_domain(u) ==
    {as_str(p) : p \in {q \in ParsedParts(Url_parse(u), u) : domain(q) # {}}}

\* validate: Some(the serialized URL) when the input parses and its domain
\* is a shortener.
validate(u) == ShortenerOnly(ParsedParts(Url_parse(u), u))

(***************************************************************************)
(* Results.  A call's result is Ok(final URL) or Err(failure); the final   *)
(* URL is written as the request URL and the number of redirect hops that  *)
(* lead from it to the final response, or as the target extracted from     *)
(* the page of the request URL.  is_shortened returns a boolean.           *)
(***************************************************************************)
Pending == [kind |-> "Pending", err |-> "", url |-> <<>>, hop |-> 0, from |-> ""]

Ok(u, h, how) == [kind |-> "Ok", err |-> "", url |-> u, hop |-> h, from |-> how]

Err(e) == [kind |-> "Err", err |-> e, url |-> <<>>, hop |-> 0, from |-> ""]

Bool(b) ==
    [kind |-> IF b THEN "True" ELSE "False", err |-> "", url |-> <<>>, hop |-> 0,
     from |-> ""]

(***************************************************************************)
(* The registry lookup and the dispatch of unshorten.                      *)
(***************************************************************************)
\* services::which_service: Some(the Service Domain the URL's host
\* matches), or None.  The lookup may come back empty for a validated URL;
\* unshorten handles that outcome, so the model keeps it possible.
MatchingServices(host) ==
    {s \in SERVICES :
        domain_matches_service(unwrap_or(strip_suffix(host, <<".">>), host), s)}

which_service(validated_url) ==
    {{}} \cup {{svc} : svc \in
                 MatchingServices(to_lowercase(Url_parse(validated_url).url.host))}

\* A dispatch that sends the meta-refresh domains to the redirect-follower.
dispatch_refresh_as_redirect(service) ==
    IF service \subseteq AdflyDomains /\ service # {} THEN "adfly"
    ELSE IF service \subseteq (RedirectDomains \cup RefreshDomains) /\ service # {}
    THEN "redirect"
    ELSE "generic"

\* The match of unshorten over the service name: the resolver module it
\* calls.
dispatch(service) ==
    CASE service # {} /\ service \subseteq AdflyDomains    -> "adfly"
      [] service # {} /\ service \subseteq RedirectDomains -> "redirect"
      [] service # {} /\ service \subseteq RefreshDomains  -> "refresh"
      [] service = {S_adfoc_us}                            -> "adfocus"
      [] service = {S_lnkd_in}                             -> "linkedin"
      [] service = {S_shorturl_at}                         -> "shorturl"
      [] service = {S_surl_li}                             -> "surlli"
      [] OTHER                                             -> "generic"

\* The strategies that walk a redirect chain; the others fetch one page and
\* extract the target from its body.
FollowsRedirects(strategy) == strategy \in {"redirect", "generic"}

\* A lookup failure that falls through to the default resolver.
after_classify_default(service) == [pc |-> "Resolve", result |-> Pending]

\* which_service(&validated_url).ok_or(Error::NoString)?
after_classify(service) ==
    IF service = {} THEN [pc |-> "Terminal", result |-> Err("NoString")]
    ELSE [pc |-> "Resolve", result |-> Pending]

\* An engine that invokes the strategy again after a failure.
after_strategy_retry(outcome) ==
    IF outcome.kind = "Err" THEN "Resolve" ELSE "Terminal"

\* The value of the selected match arm is the value of unshorten.
after_strategy(outcome) == "Terminal"

(***************************************************************************)
(* The HTTP client of a strategy.                                          *)
(***************************************************************************)
\* Policy::limited(10)
RedirectLimit == 10

\* resolvers::get_client_builder: a client whose requests are bounded by
\* the timeout, when one is given.
get_client_builder(timeout) == [timeout |-> timeout, redirect |-> 0]

\* A redirect-follower that builds its client without the timeout.
unshort_client_unbounded(timeout) == [timeout |-> {}, redirect |-> RedirectLimit]

\* get_client_builder(timeout).redirect(Policy::limited(10)).build()
unshort_client(timeout) ==
    [get_client_builder(timeout) EXCEPT !.redirect = RedirectLimit]

\* The client of a page strategy: no redirect is followed.
page_client(timeout) == get_client_builder(timeout)

\* A policy that counts the initial URL as a redirect.
Policy_limited_off_by_one(max, previous_len) ==
    IF previous_len >= max THEN "Error" ELSE "Follow"

\* reqwest's Policy::limited(max) on a redirect response: previous holds the
\* initial URL and every redirect followed so far.
Policy_limited(max, previous_len) ==
    IF previous_len > max THEN "Error" ELSE "Follow"

NoRequest ==
    [phase |-> "none", chain |-> 0, hops |-> 0, requests |-> 0, elapsed |-> 0,
     deadline |-> {}, limit |-> 0, outcome |-> Pending]

(***************************************************************************)
(* The blocking adapter's execution context.                               *)
(***************************************************************************)
\* A runtime that is forgotten instead of dropped.
drop_rt_leak(contexts, rt) == contexts

\* The drop of the local rt at the end of unshorten_blocking.
drop_rt(contexts, rt) == contexts \ rt

(***************************************************************************)
(* The workload: the inputs each caller draws its one call from.           *)
(***************************************************************************)
Callers == 1..NCallers

Prefixes ==
    {<<>>,
     <<"h", "t", "t", "p", "s", ":", "/", "/">>,
     <<"H", "T", "T", "P", "S", ":", "/", "/">>,
     <<"f", "o", "o", ":", "/", "/">>,
     <<"h", "t", "t", "p", "s", ":">>,
     <<"/", "/">>}

Hosts ==
    {<<"b", "i", "t", ".", "l", "y">>,
     <<"B", "I", "T", ".", "L", "Y">>,
     <<"s", "u", "b", ".", "b", "i", "t", ".", "l", "y">>,
     <<"e", "v", "i", "l", "b", "i", "t", ".", "l", "y">>,
     <<"b", "i", "t", ".", "l", "y", ".">>,
     <<"b", "i", "t", ".", "l", "y", ".", ".">>,
     <<"S", "U", "B", ".", "J", ".", "G", "S">>,
     <<"e", "x", "a", "m", "p", "l", "e", ".", "c", "o", "m">>,
     <<"1", ".", "1">>,
     <<>>,
     <<"a", "^", "b">>}

Ports ==
    {<<>>,
     <<":", "8", "0">>,
     <<":", "y">>,
     <<":", "/", "/", "x", ":", "y">>}

Paths ==
    {<<>>,
     <<"/", "x">>}

\* Every combination of a prefix, a host, a port part and a path.
VariantUrls ==
    {a \o h \o p \o q : a \in Prefixes, h \in Hosts, p \in Ports, q \in Paths}

\* Every registered domain, as https://<domain>/x.
ServiceUrls == {HttpsPrefix \o svc \o <<"/", "x">> : svc \in SERVICES}

Timeouts == {{}} \cup {{d} : d \in 1..MaxTimeout}

Modes == {"is_shortened", "unshorten", "unshorten_blocking"}

Off == [urls |-> {}, timeouts |-> {}, modes |-> {}, chains |-> {}]

\* One caller, every input, short redirect chains.
FullPool ==
    [c \in Callers |->
        IF c = 1
        THEN [urls |-> VariantUrls \cup ServiceUrls, timeouts |-> Timeouts,
              modes |-> Modes, chains |-> {0, 1}]
        ELSE Off]

\* One caller, one URL of each kind of strategy and one that is no shortener,
\* every redirect chain.
SmallUrls ==
    {HttpsPrefix \o S_tinyurl_com \o <<"/", "x">>,
     HttpsPrefix \o S_cutt_us \o <<"/", "x">>,
     S_bit_ly \o <<"/", "x">>,
     HttpsPrefix \o <<"e", "x", "a", "m", "p", "l", "e", ".", "c", "o", "m">>}

SmallPool ==
    [c \in Callers |->
        IF c = 1
        THEN [urls |-> SmallUrls, timeouts |-> Timeouts, modes |-> Modes,
              chains |-> 0..MaxChain]
        ELSE Off]

\* Every caller calls; the first draws from more inputs than the others,
\* which make blocking calls only.
ConcurrentPool ==
    [c \in Callers |->
        IF c = 1
        THEN [urls |-> SmallUrls, timeouts |-> {{}, {1}}, modes |-> Modes,
              chains |-> {0, 1}]
        ELSE [urls |-> {S_bit_ly \o <<"/", "x">>,
                        HttpsPrefix \o <<"e", "x", "a", "m", "p", "l", "e", ".", "c", "o", "m">>},
              timeouts |-> {{}}, modes |-> {"unshorten_blocking"}, chains |-> {0}]]

(***************************************************************************)
(* The state.                                                              *)
(***************************************************************************)
VARIABLES
    pool,       \* the workload: what each caller may call with
    pc,         \* where each caller's call is
    mode,       \* the function the caller called
    url,        \* its url argument
    timeout,    \* its timeout argument: None or Some(ticks)
    validated,  \* validate's result: None or Some(the validated URL)
    service,    \* which_service's result: None or Some(the Service Domain)
    invoked,    \* the strategies the call has invoked, in order
    net,        \* the HTTP exchange of the invoked strategy
    result,     \* the result of is_shortened or of unshorten
    ret,        \* the value unshorten_blocking returned
    rt,         \* the runtime the blocking call holds: None or Some(id)
    contexts,   \* the runtimes that exist
    created     \* how many runtimes were created so far

vars ==
    <<pool, pc, mode, url, timeout, validated, service, invoked, net, result,
      ret, rt, contexts, created>>

InitWith(workload) ==
    /\ pool = workload
    /\ pc = [c \in Callers |-> "Idle"]
    /\ mode = [c \in Callers |-> "none"]
    /\ url = [c \in Callers |-> <<>>]
    /\ timeout = [c \in Callers |-> {}]
    /\ validated = [c \in Callers |-> {}]
    /\ service = [c \in Callers |-> {}]
    /\ invoked = [c \in Callers |-> <<>>]
    /\ net = [c \in Callers |-> NoRequest]
    /\ result = [c \in Callers |-> Pending]
    /\ ret = [c \in Callers |-> Pending]
    /\ rt = [c \in Callers |-> {}]
    /\ contexts = {}
    /\ created = 0

Init == InitWith(FullPool)

InitSmall == InitWith(SmallPool)

InitConcurrent == InitWith(ConcurrentPool)

(***************************************************************************)
(* Calls.                                                                  *)
(***************************************************************************)
\* The caller picks the function and its arguments.
Call(c, m, next) ==
    /\ pc[c] = "Idle"
    /\ m \in pool[c].modes
    /\ \E u \in pool[c].urls, t \in pool[c].timeouts :
          /\ url' = [url EXCEPT ![c] = u]
          /\ timeout' = [timeout EXCEPT ![c] = IF m = "is_shortened" THEN {} ELSE t]
          /\ result' = [result EXCEPT ![c] =
                            IF m = "is_shortened" THEN Bool(is_shortened(u)) ELSE Pending]
    /\ mode' = [mode EXCEPT ![c] = m]
    /\ pc' = [pc EXCEPT ![c] = next]
    /\ UNCHANGED <<pool, validated, service, invoked, net, ret, rt, contexts, created>>

\* is_shortened(url): pure, returns at once.
CallIsShortened(c) == Call(c, "is_shortened", "Done")

\* unshorten(url, timeout)
CallUnshorten(c) == Call(c, "unshorten", "Validate")

\* unshorten_blocking(url, timeout)
CallUnshortenBlocking(c) == Call(c, "unshorten_blocking", "Acquire")

\* let rt = tokio::runtime::Runtime::new()?;
RuntimeNew(c) ==
    /\ pc[c] = "Acquire"
    /\ \/ /\ created' = created + 1
          /\ rt' = [rt EXCEPT ![c] = {created + 1}]
          /\ contexts' = contexts \cup {created + 1}
          /\ pc' = [pc EXCEPT ![c] = "Validate"]
          /\ UNCHANGED ret
       \/ /\ ret' = [ret EXCEPT ![c] = Err("Io")]
          /\ pc' = [pc EXCEPT ![c] = "Done"]
          /\ UNCHANGED <<rt, contexts, created>>
    /\ UNCHANGED <<pool, mode, url, timeout, validated, service, invoked, net, result>>

\* validate(url).ok_or(Error::NoString)
ValidationFailure == Err("NoString")

\* ready(validate(url).ok_or(Error::NoString)).and_then(...)
Validate(c) ==
    /\ pc[c] = "Validate"
    /\ LET v == validate(url[c])
       IN  /\ validated' = [validated EXCEPT ![c] = v]
           /\ IF v = {}
              THEN /\ result' = [result EXCEPT ![c] = ValidationFailure]
                   /\ pc' = [pc EXCEPT ![c] = "Terminal"]
              ELSE /\ pc' = [pc EXCEPT ![c] = "Classify"]
                   /\ UNCHANGED result
    /\ UNCHANGED <<pool, mode, url, timeout, service, invoked, net, ret, rt,
                   contexts, created>>

\* let service = which_service(&validated_url).ok_or(Error::NoString)?;
Classify(c) ==
    /\ pc[c] = "Classify"
    /\ \E s \in which_service(CHOOSE v \in validated[c] : TRUE) :
          /\ service' = [service EXCEPT ![c] = s]
          /\ pc' = [pc EXCEPT ![c] = after_classify(s).pc]
          /\ result' = [result EXCEPT ![c] = after_classify(s).result]
    /\ UNCHANGED <<pool, mode, url, timeout, validated, invoked, net, ret, rt,
                   contexts, created>>

(***************************************************************************)
(* The strategy invocation and its HTTP exchange.                          *)
(***************************************************************************)
\* resolvers::<strategy>::unshort(&validated_url, timeout): the client is
\* built (the build may fail) and the request is sent.
InvokeStrategy(c) ==
    /\ pc[c] = "Resolve"
    /\ net[c].phase = "none"
    /\ LET strategy == dispatch(service[c])
           client   == IF FollowsRedirects(strategy) THEN unshort_client(timeout[c])
                       ELSE page_client(timeout[c])
       IN  /\ invoked' = [invoked EXCEPT ![c] = Append(@, strategy)]
           /\ \E built \in BOOLEAN, n \in pool[c].chains :
                 net' = [net EXCEPT ![c] =
                    IF built
                    THEN [phase |-> "sent", chain |-> n, hops |-> 0, requests |-> 1, elapsed |-> 0,
                          deadline |-> client.timeout, limit |-> client.redirect,
                          outcome |-> Pending]
                    ELSE [NoRequest EXCEPT !.phase = "finished",
                                           !.outcome = Err("ClientBuild")]]
    /\ UNCHANGED <<pool, pc, mode, url, timeout, validated, service, result, ret,
                   rt, contexts, created>>

\* The endpoint answers a redirect-follower with a redirect: the policy
\* follows it or fails.
ServerRedirect(c) ==
    /\ pc[c] = "Resolve"
    /\ net[c].phase = "sent"
    /\ FollowsRedirects(invoked[c][Len(invoked[c])])
    /\ net[c].hops < net[c].chain
    /\ net' = [net EXCEPT ![c] =
          IF Policy_limited(net[c].limit, net[c].hops + 1) = "Follow"
          THEN [@ EXCEPT !.hops = @ + 1, !.requests = @ + 1]
          ELSE [@ EXCEPT !.phase = "finished",
                         !.outcome = Err("RedirectLimitExceeded")]]
    /\ UNCHANGED <<pool, pc, mode, url, timeout, validated, service, invoked,
                   result, ret, rt, contexts, created>>

\* The response that ends the exchange: for the redirect-follower the one
\* at the end of the chain, whose URL it returns; for a page strategy the
\* first one, redirect or not, whose body it goes on to read.
ServerFinal(c) ==
    /\ pc[c] = "Resolve"
    /\ net[c].phase = "sent"
    /\ FollowsRedirects(invoked[c][Len(invoked[c])]) => net[c].hops = net[c].chain
    /\ net' = [net EXCEPT ![c] =
          IF FollowsRedirects(invoked[c][Len(invoked[c])])
          THEN [@ EXCEPT !.phase = "finished",
                         !.outcome = Ok(CHOOSE v \in validated[c] : TRUE,
                                        net[c].hops, "response")]
          ELSE [@ EXCEPT !.phase = "body"]]
    /\ UNCHANGED <<pool, pc, mode, url, timeout, validated, service, invoked,
                   result, ret, rt, contexts, created>>

\* A page strategy has the body: the target is found in it or it is not.
PageBody(c) ==
    /\ pc[c] = "Resolve"
    /\ net[c].phase = "body"
    /\ \E found \in BOOLEAN :
          net' = [net EXCEPT ![c] =
             [@ EXCEPT !.phase = "finished",
                       !.outcome = IF found
                                   THEN Ok(CHOOSE v \in validated[c] : TRUE, 0, "page")
                                   ELSE Err("ExtractionFailure")]]
    /\ UNCHANGED <<pool, pc, mode, url, timeout, validated, service, invoked,
                   result, ret, rt, contexts, created>>

\* The transport fails (connection refused, DNS, TLS).
NetworkError(c) ==
    /\ pc[c] = "Resolve"
    /\ net[c].phase \in {"sent", "body"}
    /\ net' = [net EXCEPT ![c] =
          [@ EXCEPT !.phase = "finished", !.outcome = Err("NetworkFailure")]]
    /\ UNCHANGED <<pool, pc, mode, url, timeout, validated, service, invoked,
                   result, ret, rt, contexts, created>>

\* Time passes while the request is in flight; the clock is read only
\* against a deadline.
Tick(c) ==
    /\ pc[c] = "Resolve"
    /\ net[c].phase \in {"sent", "body"}
    /\ \E d \in net[c].deadline : net[c].elapsed < d
    /\ net' = [net EXCEPT ![c] = [@ EXCEPT !.elapsed = @ + 1]]
    /\ UNCHANGED <<pool, pc, mode, url, timeout, validated, service, invoked,
                   result, ret, rt, contexts, created>>

\* The client's timeout runs out: the request is cancelled.
TimeoutFire(c) ==
    /\ pc[c] = "Resolve"
    /\ net[c].phase \in {"sent", "body"}
    /\ \E d \in net[c].deadline : net[c].elapsed >= d
    /\ net' = [net EXCEPT ![c] =
          [@ EXCEPT !.phase = "finished", !.outcome = Err("Timeout")]]
    /\ UNCHANGED <<pool, pc, mode, url, timeout, validated, service, invoked,
                   result, ret, rt, contexts, created>>

\* The strategy returns and unshorten returns what it returned.
StrategyReturn(c) ==
    /\ pc[c] = "Resolve"
    /\ net[c].phase = "finished"
    /\ LET next == after_strategy(net[c].outcome)
       IN  /\ pc' = [pc EXCEPT ![c] = next]
           /\ IF next = "Terminal"
              THEN /\ result' = [result EXCEPT ![c] = net[c].outcome]
                   /\ UNCHANGED net
              ELSE /\ net' = [net EXCEPT ![c] = NoRequest]
                   /\ UNCHANGED result
    /\ UNCHANGED <<pool, mode, url, timeout, validated, service, invoked, ret, rt,
                   contexts, created>>

\* rt.block_on(unshorten(url, timeout)) has its value; rt is dropped and the
\* value returned.
BlockingReturn(c) ==
    /\ pc[c] = "Terminal"
    /\ mode[c] = "unshorten_blocking"
    /\ contexts' = drop_rt(contexts, rt[c])
    /\ rt' = [rt EXCEPT ![c] = {}]
    /\ ret' = [ret EXCEPT ![c] = result[c]]
    /\ pc' = [pc EXCEPT ![c] = "Done"]
    /\ UNCHANGED <<pool, mode, url, timeout, validated, service, invoked, net,
                   result, created>>

Step(c) ==
    \/ CallIsShortened(c)
    \/ CallUnshorten(c)
    \/ CallUnshortenBlocking(c)
    \/ RuntimeNew(c)
    \/ Validate(c)
    \/ Classify(c)
    \/ InvokeStrategy(c)
    \/ ServerRedirect(c)
    \/ ServerFinal(c)
    \/ PageBody(c)
    \/ NetworkError(c)
    \/ StrategyReturn(c)
    \/ BlockingReturn(c)

Next == \E c \in Callers : Step(c) \/ Tick(c) \/ TimeoutFire(c)

\* The engine tasks that the executor runs, and the timer.
Fairness ==
    \A c \in Callers :
        /\ WF_vars(InvokeStrategy(c))
        /\ WF_vars(StrategyReturn(c))
        /\ WF_vars(Tick(c))
        /\ WF_vars(TimeoutFire(c))

Spec == Init /\ [][Next]_vars

FairSpec == InitSmall /\ [][Next]_vars /\ Fairness

SpecBlocking == InitConcurrent /\ [][Next]_vars

(***************************************************************************)
(* Properties.                                                             *)
(***************************************************************************)
UnshortenModes == {"unshorten", "unshorten_blocking"}

\* The call is an unshorten call whose validation step has run.
PastValidate(c) ==
    /\ mode[c] \in UnshortenModes
    /\ \/ pc[c] \in {"Classify", "Resolve", "Terminal"}
       \/ pc[c] = "Done" /\ result[c] # Pending

\* The host of the input, when one can be extracted.
ExtractedHost(u) ==
    {h \in UNION {domain(r.url) : r \in {q \in {OrElseHttps(Url_parse(u), u)} : q.ok}} :
        TRUE}

\* The host lower-cased, without one trailing dot.
NormalizedHost(h) ==
    IF h # <<>> /\ h[Len(h)] = "."
    THEN to_lowercase(SubSeq(h, 1, Len(h) - 1))
    ELSE to_lowercase(h)

\* The host is a Service Domain or a subdomain of one.
LabelBoundedMatch(n) ==
    \E svc \in SERVICES :
        \/ n = svc
        \/ /\ Len(n) > Len(svc)
           /\ SubSeq(n, Len(n) - Len(svc), Len(n)) = <<".">> \o svc

\* C1: for every input whose host can be extracted, is_shortened returns
\* true exactly when the host, lower-cased and without one trailing dot,
\* equals a Service Domain or ends with "." followed by one; a host that
\* only ends with the characters of a Service Domain is no match.
C1_LabelBoundedClassification ==
    \A c \in Callers :
        mode[c] = "is_shortened" =>
            \A h \in ExtractedHost(url[c]) :
                (result[c].kind = "True") <=> LabelBoundedMatch(NormalizedHost(h))

\* is_shortened has answered false for a host that ends with the characters
\* of bit.ly without a label boundary.
C1_Witness ==
    \E c \in Callers :
        /\ mode[c] = "is_shortened"
        /\ result[c].kind = "False"
        /\ ExtractedHost(url[c]) = {<<"e", "v", "i", "l">> \o S_bit_ly}

\* C2: an unshorten call on an input that is no known shortener, or that
\* does not parse, ends with the validation failure; it never has a
\* validated URL or a service, invokes no strategy and sends no request.
C2_InvalidInputNoResolution ==
    \A c \in Callers :
        (PastValidate(c) /\ ~is_shortened(url[c])) =>
            /\ pc[c] \in {"Terminal", "Done"}
            /\ result[c] = ValidationFailure
            /\ validated[c] = {}
            /\ service[c] = {}
            /\ invoked[c] = <<>>
            /\ net[c] = NoRequest

\* unshorten on https://example.com has ended with the validation failure.
C2_Witness ==
    \E c \in Callers :
        /\ mode[c] = "unshorten"
        /\ pc[c] = "Terminal"
        /\ url[c] = HttpsPrefix \o <<"e", "x", "a", "m", "p", "l", "e", ".", "c", "o", "m">>
        /\ result[c] = ValidationFailure
        /\ net[c].requests = 0

\* The strategy the dispatch table names for a Service Domain.
RegisteredStrategy(s) ==
    IF s \in {S_cutt_us, S_soo_gd} THEN "refresh"
    ELSE IF s \in {S_adf_ly, S_atominik_com, S_fumacrom_com, S_intamema_com,
                   S_j_gs, S_q_gs} THEN "adfly"
    ELSE IF s \in {S_gns_io, S_ity_im, S_ldn_im, S_nowlinks_net, S_rlu_ru,
                   S_tinyurl_com, S_tr_im, S_u_to, S_vzturl_com} THEN "redirect"
    ELSE IF s = S_adfoc_us THEN "adfocus"
    ELSE IF s = S_lnkd_in THEN "linkedin"
    ELSE IF s = S_shorturl_at THEN "shorturl"
    ELSE IF s = S_surl_li THEN "surlli"
    ELSE "generic"

\* C3: whatever the endpoint has answered, the strategy a call has invoked
\* is the one registered for its matched Service Domain: meta-refresh for
\* cutt.us and soo.gd, the ad-interstitial strategy for every Adfly mirror,
\* the generic fallback for a domain that is not enumerated.
C3_DispatchByDomain ==
    \A c \in Callers :
        invoked[c] # <<>> =>
            /\ service[c] # {}
            /\ \A s \in service[c] :
                  /\ s \in SERVICES
                  /\ \A i \in 1..Len(invoked[c]) : invoked[c][i] = RegisteredStrategy(s)

\* A call on cutt.us has invoked the meta-refresh strategy, and the
\* endpoint has answered it with a redirect.
C3_Witness ==
    \E c \in Callers :
        /\ service[c] = {S_cutt_us}
        /\ invoked[c] = <<"refresh">>
        /\ net[c].chain > 0
        /\ net[c].phase = "body"

\* C4: a strategy invoked with a timeout terminates, whatever the endpoint
\* does; and a Timeout failure arises only from a deadline that has run out.
C4_TimeoutTerminates ==
    /\ \A c \in Callers :
          (pc[c] = "Resolve" /\ timeout[c] # {}) ~> (pc[c] = "Terminal")
    /\ [](\A c \in Callers :
             net[c].outcome = Err("Timeout") =>
                 \E d \in timeout[c] : net[c].elapsed >= d)

\* A call with a timeout has ended with the Timeout failure without any
\* response from the endpoint.
C4_Witness ==
    \E c \in Callers :
        /\ pc[c] = "Terminal"
        /\ timeout[c] # {}
        /\ result[c] = Err("Timeout")
        /\ net[c].hops = 0
        /\ net[c].requests = 1

\* The redirect-follower has returned from an exchange that neither timed
\* out nor failed in the transport.
FollowerDone(c) ==
    /\ invoked[c] = <<"redirect">>
    /\ net[c].phase = "finished"
    /\ net[c].outcome.err \notin {"Timeout", "NetworkFailure", "ClientBuild"}

\* C5: the redirect-follower follows at most 10 hops; a chain of at most 10
\* hops yields the URL of the final response, a longer one yields
\* RedirectLimitExceeded and no URL.
C5_RedirectHopBound ==
    \A c \in Callers :
        /\ invoked[c] = <<"redirect">> => net[c].hops <= 10
        /\ FollowerDone(c) =>
              IF net[c].chain <= 10
              THEN net[c].outcome =
                       Ok(CHOOSE v \in validated[c] : TRUE, net[c].chain, "response")
              ELSE net[c].outcome = Err("RedirectLimitExceeded")

\* The redirect-follower has walked a chain of 10 hops to its end.
C5_Witness ==
    \E c \in Callers :
        /\ FollowerDone(c)
        /\ net[c].chain = 10
        /\ net[c].outcome.kind = "Ok"
        /\ net[c].outcome.hop = 10

\* C6: is_shortened answers with a boolean for every input; when the strict
\* parse fails it answers what it answers for the input with https://
\* prepended, and false when that does not parse either.
C6_SchemeDefaulted ==
    \A c \in Callers :
        mode[c] = "is_shortened" =>
            /\ result[c].kind \in {"True", "False"}
            /\ ~Url_parse(url[c]).ok =>
                  /\ result[c] = Bool(is_shortened(HttpsPrefix \o url[c]))
                  /\ ~Url_parse(HttpsPrefix \o url[c]).ok => result[c].kind = "False"

\* is_shortened has answered true for bit.ly/x, which has no scheme.
C6_Witness ==
    \E c \in Callers :
        /\ mode[c] = "is_shortened"
        /\ url[c] = S_bit_ly \o <<"/", "x">>
        /\ ~Url_parse(url[c]).ok
        /\ result[c].kind = "True"

\* The blocking calls.
Blocking(c) == mode[c] = "unshorten_blocking"

\* C7: a blocking call holds a runtime only while it runs, the runtime is
\* its own, no runtime exists that no running call holds, and the call
\* returns the result of unshorten.
C7_ScopedContext ==
    /\ \A c \in Callers :
          /\ rt[c] # {} =>
                /\ Blocking(c)
                /\ pc[c] \in {"Validate", "Classify", "Resolve", "Terminal"}
          /\ (Blocking(c) /\ pc[c] \in {"Validate", "Classify", "Resolve", "Terminal"})
                => Cardinality(rt[c]) = 1
          /\ (Blocking(c) /\ pc[c] = "Done" /\ result[c] # Pending) => ret[c] = result[c]
    /\ \A c, d \in Callers : c # d => rt[c] \cap rt[d] = {}
    /\ contexts = UNION {rt[c] : c \in Callers}

\* Two blocking calls have run, each in a runtime of its own; one has
\* succeeded, the other has failed, and no runtime is left.
C7_Witness ==
    \E c, d \in Callers :
        /\ c # d
        /\ Blocking(c) /\ Blocking(d)
        /\ pc[c] = "Done" /\ pc[d] = "Done"
        /\ ret[c].kind = "Ok"
        /\ ret[d] = ValidationFailure
        /\ created = 2
        /\ contexts = {}

\* The registry lookup of the call has come back empty.
LookupFailed(c) ==
    /\ PastValidate(c)
    /\ pc[c] \in {"Terminal", "Done"}
    /\ validated[c] # {}
    /\ service[c] = {}

\* C8 as stated: after an empty lookup unshorten fails with a failure that
\* differs from the one it returns for invalid input, and invokes no
\* strategy.
C8_DistinctFailure ==
    \A c \in Callers :
        LookupFailed(c) =>
            /\ result[c].kind = "Err"
            /\ result[c] # ValidationFailure
            /\ invoked[c] = <<>>

\* C8 as amended: after an empty lookup unshorten fails with
\* Error::NoString, the failure it also returns for invalid input, and
\* invokes no strategy and sends no request.
C8_LookupFailure ==
    \A c \in Callers :
        LookupFailed(c) =>
            /\ result[c] = Err("NoString")
            /\ result[c] = ValidationFailure
            /\ invoked[c] = <<>>
            /\ net[c] = NoRequest

\* An unshorten call on a shortener URL has ended on an empty lookup.
C8_Witness ==
    \E c \in Callers :
        /\ LookupFailed(c)
        /\ mode[c] = "unshorten"
        /\ is_shortened(url[c])
        /\ result[c].kind = "Err"

\* C9: the validation step of unshorten accepts an input exactly when
\* is_shortened returns true for it.
C9_ValidationAgrees ==
    \A c \in Callers :
        PastValidate(c) => (validated[c] # {} <=> is_shortened(url[c]))

Rank(p) ==
    CASE p = "Idle"     -> 0
      [] p = "Acquire"  -> 1
      [] p = "Validate" -> 2
      [] p = "Classify" -> 3
      [] p = "Resolve"  -> 4
      [] p = "Terminal" -> 5
      [] p = "Done"     -> 6

\* C10: a call never returns to an earlier step, invokes at most one
\* strategy and at most once, and returns the strategy's result or failure
\* as it is.
C10_LinearNoRetry ==
    [][\A c \in Callers :
          /\ Rank(pc'[c]) >= Rank(pc[c])
          /\ Len(invoked'[c]) <= 1
          /\ (pc[c] = "Resolve" /\ pc'[c] # "Resolve") =>
                /\ pc'[c] = "Terminal"
                /\ net[c].phase = "finished"
                /\ result'[c] = net[c].outcome]_vars

\* A call has ended with the failure of its one strategy invocation.
C10_Witness ==
    \E c \in Callers :
        /\ pc[c] = "Terminal"
        /\ invoked[c] = <<"adfly">>
        /\ result[c] = Err("ExtractionFailure")

=============================================================================
